---- MODULE Spec2Model ----
(***************************************************************************)
(* SizeMatters server: the room directory (RoomManagerActor) and the       *)
(* per-room voting state machine (RoomActor), as actors with FIFO          *)
(* mailboxes.  Client actors put requests into the directory's mailbox;    *)
(* the directory forwards to rooms; rooms push responses to clients and    *)
(* notify the directory (UserLeft, RoomClosing).                           *)
(*                                                                         *)
(* Mailboxes are unbounded (actix do_send never refuses; try_send to the   *)
(* directory is taken to succeed).  A try_send to a client fails exactly   *)
(* when that client actor has stopped.                                     *)
(***************************************************************************)
EXTENDS Integers, Sequences, FiniteSets, TLC

VARIABLES
    rooms,            \* RoomManagerActor.rooms: room name -> the RoomActor it addresses
    user_room_map,    \* RoomManagerActor.user_room_map: user id -> room name
    manager_mailbox,  \* mailbox of the RoomManagerActor (FIFO)
    mailbox,          \* mailbox of each RoomActor held in rooms (FIFO)
    stopped,          \* names in rooms whose RoomActor has called ctx.stop()
    clients,          \* ClientActor per user id: whether the actor is running
    sent,             \* deliveries to clients made by the last step: [to, msg]
    bcast,            \* messages handed to RoomActor::notify_users by the last step
    cleared,          \* <<user id, size>> entries the last step took out of a vote map
    handled,          \* <<room, type, user id, from>> of the message the last step
                      \* took from a room's mailbox
    nreq,             \* number of client events so far
    reclaimed,        \* history: <<name, hashed_password>> of the rooms removed
    cast,             \* history: <<room, user id, size>> of the votes a room took
                      \* (answered with OwnVote) since it last handled a NewVote
                      \* of a member
    renewed,          \* history: the rooms that have handled a member's NewVote
    revealed,         \* history: the rooms that have delivered a VoteResults with a
                      \* vote in it since they last handled a NewVote of a member
    failed            \* history: <<room, user id>> of the members of a room to whom
                      \* a delivery by that room has failed

vars == <<rooms, user_room_map, manager_mailbox, mailbox, stopped, clients,
          sent, bcast, cleared, handled, nreq, reclaimed, cast, renewed, revealed,
          failed>>

(***************************************************************************)
(* Bounds of the model.                                                    *)
(***************************************************************************)
MaxRequests == 4      \* client events (requests, disconnects) in a behaviour
MaxPending == 0       \* a client sends only while the directory holds at most
                      \* this many unhandled messages

Users == {"A", "B"}
\* Room names are sequences of characters so that the validator is computed.
RoomNames == {<<"r">>, <<"s">>}
BadRoomNames == {<<"r", "1">>}
AllRoomNames == RoomNames \cup BadRoomNames
TheRoom == <<"r">>
\* (room_name, password, password_is_hash) triples a client may send.
RoomJoinInputs == {<<TheRoom, "x", FALSE>>, <<TheRoom, "y", FALSE>>, <<TheRoom, "hx", TRUE>>}
JoinInputs == RoomJoinInputs \cup {<<r, "x", FALSE>> : r \in AllRoomNames}
Sizes == {"3", "5"}
ScaleInputs == {"fistOfFive", "tshirt"}

(***************************************************************************)
(* HashMap helpers.                                                        *)
(***************************************************************************)
EmptyMap == [k \in {} |-> ""]
EmptyStatus == [k \in {} |-> FALSE]
MapInsert(m, k, v) == [x \in (DOMAIN m) \cup {k} |-> IF x = k THEN v ELSE m[x]]
MapRemove(m, k) == [x \in (DOMAIN m) \ {k} |-> m[x]]

\* All orders in which a set can be enumerated (HashMap iteration order).
RECURSIVE Orders(_)
Orders(S) ==
    IF S = {} THEN {<<>>}
    ELSE UNION {{<<x>> \o t : t \in Orders(S \ {x})} : x \in S}

(***************************************************************************)
(* data.rs, room_actor.rs: passwords and scales.                           *)
(***************************************************************************)
\* md5 hex digest: a fixed injective table on the strings of the model.
Md5Hex(s) ==
    CASE s = "x" -> "hx"
      [] s = "y" -> "hy"
      [] s = "hx" -> "hhx"
      [] OTHER -> "h?"

compute_password(password, password_is_hash) ==
    IF password_is_hash THEN password ELSE Md5Hex(password)

NoScale == [name |-> "", displayName |-> "", values |-> <<>>]

scale_values ==
    [k \in {"fibonacci", "fistOfFive"} |->
        IF k = "fibonacci"
        THEN [name |-> "fibonacci", displayName |-> "Fibonacci",
              values |-> <<"0", "1", "2", "3", "5", "8", "13", "NV">>]
        ELSE [name |-> "fistOfFive", displayName |-> "FistOfFive",
              values |-> <<"1", "2", "3", "4", "5", "NV">>]]

(***************************************************************************)
(* ClientResponseMessage: one record shape for every variant.              *)
(***************************************************************************)
Resp ==
    [type |-> "", room_name |-> <<>>, user_id |-> "", size |-> "",
     users |-> {}, votes_cast |-> 0, votes |-> EmptyMap, status |-> EmptyStatus,
     active |-> FALSE, hashed_password |-> "", selected_scale_name |-> "",
     selected_scale |-> NoScale]

\* An emission of a RoomActor handler: a message and the users it is tried on.
\* "to" are tried first, then "to2" (notify_users: active members, then passive).
Direct(u, msg) == [kind |-> "direct", to |-> {u}, to2 |-> {}, msg |-> msg]

(***************************************************************************)
(* RoomMessage: one record shape for every variant.  The field "from" is   *)
(* not part of the message: it names the room whose failed delivery the    *)
(* message stems from (<<>> for a message that stems from a client).       *)
(***************************************************************************)
RoomMsg ==
    [type |-> "", room_name |-> <<>>, user_id |-> "",
     password |-> "", password_is_hash |-> FALSE, size |-> "",
     selected_scale_name |-> "", active |-> FALSE,
     from |-> <<>>]

MsgJoinRoom(r, pw, ish, u) ==
    [RoomMsg EXCEPT !.type = "JoinRoom", !.room_name = r, !.password = pw,
                    !.password_is_hash = ish, !.user_id = u]
MsgLeaveRoom(u, r) == [RoomMsg EXCEPT !.type = "LeaveRoom", !.room_name = r, !.user_id = u]
MsgUserLeft(u) == [RoomMsg EXCEPT !.type = "UserLeft", !.user_id = u]
MsgUserUpdated(u) == [RoomMsg EXCEPT !.type = "UserUpdated", !.user_id = u]
MsgVote(r, u, v) == [RoomMsg EXCEPT !.type = "Vote", !.room_name = r, !.user_id = u, !.size = v]
MsgNewVote(r, u) == [RoomMsg EXCEPT !.type = "NewVote", !.room_name = r, !.user_id = u]
MsgRandomize(r) == [RoomMsg EXCEPT !.type = "Randomize", !.room_name = r]
MsgChangeScale(r, s) ==
    [RoomMsg EXCEPT !.type = "ChangeScale", !.room_name = r, !.selected_scale_name = s]
MsgUpdateActive(r, u, a) ==
    [RoomMsg EXCEPT !.type = "UpdateActive", !.room_name = r, !.user_id = u, !.active = a]
MsgRoomClosing(r) == [RoomMsg EXCEPT !.type = "RoomClosing", !.room_name = r]

(***************************************************************************)
(* RoomActor (room_actor.rs, room_actor/*.rs).  A room is the record of    *)
(* the struct's fields; a ConnectionInfo is kept as its UserData.user_id   *)
(* (the map's key; the recipient is that client; name and avatar are       *)
(* payload no handler reads).                                              *)
(* Each handler is an operator from the room to the room after it and the  *)
(* sequence of emissions it made, in order.                                *)
(***************************************************************************)
RoomActor_new(name, password, password_is_hash) ==
    [name |-> name,
     hashed_password |-> compute_password(password, password_is_hash),
     active_user_map |-> EmptyMap,
     passive_user_map |-> EmptyMap,
     vote_map |-> EmptyMap,
     voting_over |-> FALSE,
     selected_scale_name |-> "fibonacci"]

Effect(rm, em) == [rm |-> rm, em |-> em, closing |-> FALSE]

notify_users(rm, msg) ==
    [kind |-> "bcast", to |-> DOMAIN rm.active_user_map,
     to2 |-> DOMAIN rm.passive_user_map, msg |-> msg]

in_room(rm, user_id) ==
    \/ user_id \in DOMAIN rm.active_user_map
    \/ user_id \in DOMAIN rm.passive_user_map

voting_over(rm) ==
    Cardinality(DOMAIN rm.vote_map) = Cardinality(DOMAIN rm.active_user_map)

\* send_vote_info without the voting_over test.
send_vote_info_always_results(rm) ==
    <<notify_users(rm, [Resp EXCEPT !.type = "VoteResults", !.room_name = rm.name,
                                    !.votes = rm.vote_map])>>

send_vote_info(rm) ==
    IF voting_over(rm)
    THEN <<notify_users(rm, [Resp EXCEPT !.type = "VoteResults", !.room_name = rm.name,
                                         !.votes = rm.vote_map])>>
    ELSE <<notify_users(rm, [Resp EXCEPT !.type = "VoteStatus", !.room_name = rm.name,
               !.status = [u \in DOMAIN rm.active_user_map |-> u \in DOMAIN rm.vote_map]])>>

\* vote without the voting_over test.
vote_after_completion(rm, user_id, size) ==
    IF user_id \in DOMAIN rm.active_user_map
    THEN LET own == Direct(user_id, [Resp EXCEPT !.type = "OwnVote",
                               !.room_name = rm.name, !.size = size])
             already_voted == user_id \in DOMAIN rm.vote_map
             rm2 == [rm EXCEPT !.vote_map = MapInsert(@, user_id, size)]
         IN  Effect(rm2, <<own>> \o (IF ~already_voted THEN send_vote_info(rm2)
                                                       ELSE <<>>))
    ELSE Effect(rm, <<>>)

\* vote with the already_voted test inverted.
vote_status_on_revote(rm, user_id, size) ==
    IF voting_over(rm)
    THEN IF user_id \in DOMAIN rm.active_user_map
         THEN Effect(rm, <<Direct(user_id, [Resp EXCEPT !.type = "VotingOver"])>>)
         ELSE Effect(rm, <<>>)
    ELSE IF user_id \in DOMAIN rm.active_user_map
         THEN LET own == Direct(user_id, [Resp EXCEPT !.type = "OwnVote",
                                    !.room_name = rm.name, !.size = size])
                  already_voted == user_id \in DOMAIN rm.vote_map
                  rm2 == [rm EXCEPT !.vote_map = MapInsert(@, user_id, size)]
              IN  Effect(rm2, <<own>> \o (IF already_voted THEN send_vote_info(rm2)
                                                           ELSE <<>>))
         ELSE Effect(rm, <<>>)

\* vote that keeps the value of the member's first vote in the round.
vote_keeps_first_value(rm, user_id, size) ==
    IF voting_over(rm)
    THEN IF user_id \in DOMAIN rm.active_user_map
         THEN Effect(rm, <<Direct(user_id, [Resp EXCEPT !.type = "VotingOver"])>>)
         ELSE Effect(rm, <<>>)
    ELSE IF user_id \in DOMAIN rm.active_user_map
         THEN LET own == Direct(user_id, [Resp EXCEPT !.type = "OwnVote",
                                    !.room_name = rm.name, !.size = size])
                  already_voted == user_id \in DOMAIN rm.vote_map
                  rm2 == IF already_voted THEN rm
                         ELSE [rm EXCEPT !.vote_map = MapInsert(@, user_id, size)]
              IN  Effect(rm2, <<own>> \o (IF ~already_voted THEN send_vote_info(rm2)
                                                            ELSE <<>>))
         ELSE Effect(rm, <<>>)

\* vote that takes the vote of any member, active or passive.
vote_of_any_member(rm, user_id, size) ==
    IF voting_over(rm)
    THEN IF user_id \in DOMAIN rm.active_user_map
         THEN Effect(rm, <<Direct(user_id, [Resp EXCEPT !.type = "VotingOver"])>>)
         ELSE Effect(rm, <<>>)
    ELSE IF in_room(rm, user_id)
         THEN LET own == Direct(user_id, [Resp EXCEPT !.type = "OwnVote",
                                    !.room_name = rm.name, !.size = size])
                  already_voted == user_id \in DOMAIN rm.vote_map
                  rm2 == [rm EXCEPT !.vote_map = MapInsert(@, user_id, size)]
              IN  Effect(rm2, <<own>> \o (IF ~already_voted THEN send_vote_info(rm2)
                                                            ELSE <<>>))
         ELSE Effect(rm, <<>>)

vote(rm, user_id, size) ==
    IF voting_over(rm)
    THEN IF user_id \in DOMAIN rm.active_user_map
         THEN Effect(rm, <<Direct(user_id, [Resp EXCEPT !.type = "VotingOver"])>>)
         ELSE Effect(rm, <<>>)
    ELSE IF user_id \in DOMAIN rm.active_user_map
         THEN LET own == Direct(user_id, [Resp EXCEPT !.type = "OwnVote",
                                    !.room_name = rm.name, !.size = size])
                  already_voted == user_id \in DOMAIN rm.vote_map
                  rm2 == [rm EXCEPT !.vote_map = MapInsert(@, user_id, size)]
              IN  Effect(rm2, <<own>> \o (IF ~already_voted THEN send_vote_info(rm2)
                                                            ELSE <<>>))
         ELSE Effect(rm, <<>>)

\* new_vote that resets the flag and leaves the vote map as it is.
new_vote_keeps_votes(rm, user_id) ==
    IF in_room(rm, user_id)
    THEN LET rm2 == [rm EXCEPT !.voting_over = FALSE]
         IN  Effect(rm2, <<notify_users(rm2, [Resp EXCEPT !.type = "NewVote",
                                                  !.room_name = rm.name])>>)
    ELSE Effect(rm, <<>>)

new_vote(rm, user_id) ==
    IF in_room(rm, user_id)
    THEN LET rm2 == [rm EXCEPT !.voting_over = FALSE, !.vote_map = EmptyMap]
         IN  Effect(rm2, <<notify_users(rm2, [Resp EXCEPT !.type = "NewVote",
                                                  !.room_name = rm.name])>>)
    ELSE Effect(rm, <<>>)

user_already_in_room(rm, user_id) ==
    Effect(rm, <<Direct(user_id, [Resp EXCEPT !.type = "AlreadyInRoom",
                                               !.room_name = rm.name])>>)

wrong_password(rm, user_id) ==
    Effect(rm, <<Direct(user_id, [Resp EXCEPT !.type = "WrongPassword",
                                               !.room_name = rm.name])>>)

\* do_join_room that inserts the joiner before it announces the join.
do_join_room_insert_first(rm, user_id) ==
    LET rm2 == [rm EXCEPT !.active_user_map = MapInsert(@, user_id, user_id)]
        entered == notify_users(rm2, [Resp EXCEPT !.type = "UserJoined",
                       !.room_name = rm.name, !.user_id = user_id])
        users == {rm2.active_user_map[u] : u \in DOMAIN rm2.active_user_map}
                 \cup {rm2.passive_user_map[u] : u \in DOMAIN rm2.passive_user_map}
        join_msg == [Resp EXCEPT !.type = "RoomJoined", !.room_name = rm.name,
                        !.hashed_password = rm.hashed_password, !.users = users,
                        !.votes_cast = Cardinality(DOMAIN rm.vote_map),
                        !.selected_scale_name = rm.selected_scale_name]
    IN  Effect(rm2, <<entered, Direct(user_id, join_msg)>>)

RoomActor_do_join_room(rm, user_id) ==
    LET entered == notify_users(rm, [Resp EXCEPT !.type = "UserJoined",
                       !.room_name = rm.name, !.user_id = user_id])
        rm2 == [rm EXCEPT !.active_user_map = MapInsert(@, user_id, user_id)]
        users == {rm2.active_user_map[u] : u \in DOMAIN rm2.active_user_map}
                 \cup {rm2.passive_user_map[u] : u \in DOMAIN rm2.passive_user_map}
        join_msg == [Resp EXCEPT !.type = "RoomJoined", !.room_name = rm.name,
                        !.hashed_password = rm.hashed_password, !.users = users,
                        !.votes_cast = Cardinality(DOMAIN rm.vote_map),
                        !.selected_scale_name = rm.selected_scale_name]
    IN  Effect(rm2, <<entered, Direct(user_id, join_msg)>>)

RoomActor_join_room(rm, password, password_is_hash, user_id) ==
    LET hashed_password == compute_password(password, password_is_hash)
    IN  IF in_room(rm, user_id)
        THEN user_already_in_room(rm, user_id)
        ELSE IF rm.hashed_password # hashed_password
        THEN wrong_password(rm, user_id)
        ELSE RoomActor_do_join_room(rm, user_id)

\* leave_room that closes the room only when no member at all is left.
leave_room_closes_without_members(rm, user_id) ==
    LET left == notify_users(rm, [Resp EXCEPT !.type = "UserLeft",
                                     !.room_name = rm.name, !.user_id = user_id])
        rm2 == IF user_id \in DOMAIN rm.active_user_map
               THEN [rm EXCEPT !.active_user_map = MapRemove(@, user_id)]
               ELSE IF user_id \in DOMAIN rm.passive_user_map
               THEN [rm EXCEPT !.passive_user_map = MapRemove(@, user_id)]
               ELSE rm
        rm3 == [rm2 EXCEPT !.vote_map = MapRemove(@, user_id)]
    IN  [rm |-> rm3, em |-> <<left>> \o send_vote_info(rm3),
         closing |-> (DOMAIN rm3.active_user_map = {}
                      /\ DOMAIN rm3.passive_user_map = {})]

\* leave_room that sends the round status before it removes the member.
leave_room_stale_status(rm, user_id) ==
    LET left == notify_users(rm, [Resp EXCEPT !.type = "UserLeft",
                                     !.room_name = rm.name, !.user_id = user_id])
        rm2 == IF user_id \in DOMAIN rm.active_user_map
               THEN [rm EXCEPT !.active_user_map = MapRemove(@, user_id)]
               ELSE IF user_id \in DOMAIN rm.passive_user_map
               THEN [rm EXCEPT !.passive_user_map = MapRemove(@, user_id)]
               ELSE rm
        rm3 == [rm2 EXCEPT !.vote_map = MapRemove(@, user_id)]
    IN  [rm |-> rm3, em |-> <<left>> \o send_vote_info(rm),
         closing |-> (DOMAIN rm3.active_user_map = {})]

\* leave_room that tests the passive set for emptiness before it closes.
leave_room_closes_on_passive_empty(rm, user_id) ==
    LET left == notify_users(rm, [Resp EXCEPT !.type = "UserLeft",
                                     !.room_name = rm.name, !.user_id = user_id])
        rm2 == IF user_id \in DOMAIN rm.active_user_map
               THEN [rm EXCEPT !.active_user_map = MapRemove(@, user_id)]
               ELSE IF user_id \in DOMAIN rm.passive_user_map
               THEN [rm EXCEPT !.passive_user_map = MapRemove(@, user_id)]
               ELSE rm
        rm3 == [rm2 EXCEPT !.vote_map = MapRemove(@, user_id)]
    IN  [rm |-> rm3, em |-> <<left>> \o send_vote_info(rm3),
         closing |-> (DOMAIN rm3.passive_user_map = {})]

RoomActor_leave_room(rm, user_id) ==
    LET left == notify_users(rm, [Resp EXCEPT !.type = "UserLeft",
                                     !.room_name = rm.name, !.user_id = user_id])
        rm2 == IF user_id \in DOMAIN rm.active_user_map
               THEN [rm EXCEPT !.active_user_map = MapRemove(@, user_id)]
               ELSE IF user_id \in DOMAIN rm.passive_user_map
               THEN [rm EXCEPT !.passive_user_map = MapRemove(@, user_id)]
               ELSE rm
        rm3 == [rm2 EXCEPT !.vote_map = MapRemove(@, user_id)]
    IN  [rm |-> rm3, em |-> <<left>> \o send_vote_info(rm3),
         closing |-> (DOMAIN rm3.active_user_map = {})]

RoomActor_user_updated(rm, user_id) ==
    LET hitA == user_id \in DOMAIN rm.active_user_map
        rm2 == IF hitA THEN [rm EXCEPT !.active_user_map[user_id] = user_id] ELSE rm
        msg == [Resp EXCEPT !.type = "UserUpdated", !.user_id = user_id]
        em2 == IF hitA THEN <<notify_users(rm2, msg)>> ELSE <<>>
        hitP == user_id \in DOMAIN rm2.passive_user_map
        rm3 == IF hitP THEN [rm2 EXCEPT !.passive_user_map[user_id] = user_id] ELSE rm2
        em3 == IF hitP THEN <<notify_users(rm3, msg)>> ELSE <<>>
    IN  Effect(rm3, em2 \o em3)

\* The values random_range(0..len) can return; user_index stays 0 when the
\* map has at most one key.
random_indices(rm) ==
    IF Cardinality(DOMAIN rm.active_user_map) > 1
    THEN 0 .. (Cardinality(DOMAIN rm.active_user_map) - 1)
    ELSE {0}

\* randomize that takes the keys of both member maps.
randomize_among_members(rm, users, user_index) ==
    LET all == users \o CHOOSE o \in Orders(DOMAIN rm.passive_user_map) : TRUE
        at == Len(all) - user_index
    IN  IF at \notin DOMAIN all
        THEN Effect(rm, <<>>)
        ELSE Effect(rm, <<notify_users(rm, [Resp EXCEPT !.type = "Randomized",
                              !.room_name = rm.name, !.user_id = all[at]])>>)

\* users: the keys of active_user_map in the order the map yields them;
\* user_index: the index drawn (0-based, as Vec::get takes it).
randomize(rm, users, user_index) ==
    IF user_index + 1 \notin DOMAIN users
    THEN Effect(rm, <<>>)
    ELSE Effect(rm, <<notify_users(rm, [Resp EXCEPT !.type = "Randomized",
                          !.room_name = rm.name,
                          !.user_id = users[user_index + 1]])>>)

\* change_scale that stores the name before it looks the scale up.
change_scale_before_lookup(rm, selected_scale_name) ==
    LET rm2 == [rm EXCEPT !.selected_scale_name = selected_scale_name]
    IN  IF selected_scale_name \notin DOMAIN scale_values
        THEN Effect(rm2, <<>>)
        ELSE Effect(rm2, <<notify_users(rm2, [Resp EXCEPT !.type = "ScaleChanged",
                              !.room_name = rm.name,
                              !.selected_scale = scale_values[selected_scale_name]])>>)

change_scale(rm, selected_scale_name) ==
    IF selected_scale_name \notin DOMAIN scale_values
    THEN Effect(rm, <<>>)
    ELSE LET rm2 == [rm EXCEPT !.selected_scale_name = selected_scale_name]
         IN  Effect(rm2, <<notify_users(rm2, [Resp EXCEPT !.type = "ScaleChanged",
                              !.room_name = rm.name,
                              !.selected_scale = scale_values[selected_scale_name]])>>)

\* update_active without the removal of the vote of a member moved to passive.
update_active_keep_vote(rm, user_id, active) ==
    LET toActive == active /\ user_id \in DOMAIN rm.passive_user_map
        toPassive == ~active /\ user_id \in DOMAIN rm.active_user_map
        rm2 == IF toActive
               THEN [rm EXCEPT !.active_user_map =
                                   MapInsert(@, user_id, rm.passive_user_map[user_id]),
                               !.passive_user_map = MapRemove(@, user_id)]
               ELSE IF toPassive
               THEN [rm EXCEPT !.passive_user_map =
                                   MapInsert(@, user_id, rm.active_user_map[user_id]),
                               !.active_user_map = MapRemove(@, user_id)]
               ELSE rm
        info == IF toPassive THEN send_vote_info(rm2) ELSE <<>>
    IN  Effect(rm2, info \o <<notify_users(rm2, [Resp EXCEPT !.type = "ActiveUpdated",
               !.room_name = rm.name, !.user_id = user_id, !.active = active])>>)

\* update_active that sends the round status before it moves the member.
update_active_stale_status(rm, user_id, active) ==
    LET toActive == active /\ user_id \in DOMAIN rm.passive_user_map
        toPassive == ~active /\ user_id \in DOMAIN rm.active_user_map
        rm2 == IF toActive
               THEN [rm EXCEPT !.active_user_map =
                                   MapInsert(@, user_id, rm.passive_user_map[user_id]),
                               !.passive_user_map = MapRemove(@, user_id)]
               ELSE IF toPassive
               THEN [rm EXCEPT !.passive_user_map =
                                   MapInsert(@, user_id, rm.active_user_map[user_id]),
                               !.active_user_map = MapRemove(@, user_id),
                               !.vote_map = MapRemove(@, user_id)]
               ELSE rm
        info == IF toPassive THEN send_vote_info(rm) ELSE <<>>
    IN  Effect(rm2, info \o <<notify_users(rm2, [Resp EXCEPT !.type = "ActiveUpdated",
               !.room_name = rm.name, !.user_id = user_id, !.active = active])>>)

\* update_active that inserts into the target map without removing the entry
\* from the map it came from.
update_active_copy(rm, user_id, active) ==
    LET rm2 == IF active /\ user_id \in DOMAIN rm.passive_user_map
               THEN [rm EXCEPT !.active_user_map =
                                   MapInsert(@, user_id, rm.passive_user_map[user_id])]
               ELSE IF ~active /\ user_id \in DOMAIN rm.active_user_map
               THEN [rm EXCEPT !.passive_user_map =
                                   MapInsert(@, user_id, rm.active_user_map[user_id]),
                               !.vote_map = MapRemove(@, user_id)]
               ELSE rm
    IN  Effect(rm2, <<notify_users(rm2, [Resp EXCEPT !.type = "ActiveUpdated",
               !.room_name = rm.name, !.user_id = user_id, !.active = active])>>)

update_active(rm, user_id, active) ==
    LET toActive == active /\ user_id \in DOMAIN rm.passive_user_map
        toPassive == ~active /\ user_id \in DOMAIN rm.active_user_map
        rm2 == IF toActive
               THEN [rm EXCEPT !.active_user_map =
                                   MapInsert(@, user_id, rm.passive_user_map[user_id]),
                               !.passive_user_map = MapRemove(@, user_id)]
               ELSE IF toPassive
               THEN [rm EXCEPT !.passive_user_map =
                                   MapInsert(@, user_id, rm.active_user_map[user_id]),
                               !.active_user_map = MapRemove(@, user_id),
                               !.vote_map = MapRemove(@, user_id)]
               ELSE rm
        info == IF toPassive THEN send_vote_info(rm2) ELSE <<>>
    IN  Effect(rm2, info \o <<notify_users(rm2, [Resp EXCEPT !.type = "ActiveUpdated",
               !.room_name = rm.name, !.user_id = user_id, !.active = active])>>)

(***************************************************************************)
(* Delivery (RoomActor::notify_users / notify_user / remove_user): each    *)
(* try_send to a stopped client fails and sends UserLeft to the directory. *)
(***************************************************************************)
Alive(u) == clients[u].alive

Deliveries(em) ==
    UNION {{[to |-> u, msg |-> em[i].msg] :
               u \in {x \in em[i].to \cup em[i].to2 : Alive(x)}} : i \in DOMAIN em}

Broadcasts(em) == {em[i].msg : i \in {j \in DOMAIN em : em[j].kind = "bcast"}}

\* remove_user that reports the failure as a profile change.
remove_user_as_update(user_id) == MsgUserUpdated(user_id)

remove_user(user_id) == MsgUserLeft(user_id)

UserLeftSeq(ord) == [i \in DOMAIN ord |-> remove_user(ord[i])]

RECURSIVE FailSeqs(_)
FailSeqs(em) ==
    IF em = <<>> THEN {<<>>}
    ELSE {UserLeftSeq(a) \o UserLeftSeq(b) \o rest :
             a \in Orders({u \in Head(em).to : ~Alive(u)}),
             b \in Orders({u \in Head(em).to2 : ~Alive(u)}),
             rest \in FailSeqs(Tail(em))}

(***************************************************************************)
(* A RoomActor handles the message at the head of its mailbox.             *)
(* leave_room's ctx.stop() ends the actor: what is left in its mailbox and *)
(* what is sent to it later is never handled.                              *)
(***************************************************************************)
RoomReady(r, type) ==
    /\ r \in DOMAIN rooms
    /\ r \notin stopped
    /\ mailbox[r] # <<>>
    /\ Head(mailbox[r]).type = type

RoomStep(r, eff) ==
    /\ rooms' = [rooms EXCEPT ![r] = eff.rm]
    /\ \E fs \in FailSeqs(eff.em) :
          manager_mailbox' = manager_mailbox
              \o [i \in DOMAIN fs |-> [fs[i] EXCEPT !.from = r]] \o
              (IF eff.closing THEN <<MsgRoomClosing(eff.rm.name)>> ELSE <<>>)
    /\ stopped' = IF eff.closing THEN stopped \cup {r} ELSE stopped
    /\ mailbox' = [mailbox EXCEPT ![r] = IF eff.closing THEN <<>> ELSE Tail(@)]
    /\ sent' = Deliveries(eff.em)
    /\ bcast' = Broadcasts(eff.em)
    /\ cleared' = {<<u, rooms[r].vote_map[u]>> :
                      u \in DOMAIN rooms[r].vote_map \ DOMAIN eff.rm.vote_map}
    /\ handled' = {<<r, Head(mailbox[r]).type, Head(mailbox[r]).user_id,
                      Head(mailbox[r]).from>>}
    /\ cast' =
          LET m == Head(mailbox[r])
              emitted == {eff.em[i].msg.type : i \in DOMAIN eff.em}
          IN  IF m.type = "NewVote" /\ "NewVote" \in emitted
              THEN {c \in cast : c[1] # r}
              ELSE IF m.type = "Vote" /\ "OwnVote" \in emitted
              THEN {c \in cast : c[1] # r \/ c[2] # m.user_id}
                       \cup {<<r, m.user_id, m.size>>}
              ELSE cast
    /\ renewed' =
          IF /\ Head(mailbox[r]).type = "NewVote"
             /\ \E i \in DOMAIN eff.em : eff.em[i].msg.type = "NewVote"
          THEN renewed \cup {r}
          ELSE renewed
    /\ revealed' =
          IF /\ Head(mailbox[r]).type = "NewVote"
             /\ \E i \in DOMAIN eff.em : eff.em[i].msg.type = "NewVote"
          THEN revealed \ {r}
          ELSE IF \E d \in Deliveries(eff.em) :
                     d.msg.type = "VoteResults" /\ d.msg.votes # EmptyMap
          THEN revealed \cup {r}
          ELSE revealed
    /\ failed' =
          LET tried == UNION {eff.em[i].to \cup eff.em[i].to2 : i \in DOMAIN eff.em}
              now == failed \cup {<<r, u>> : u \in {x \in tried : ~Alive(x)}}
          IN  {f \in now : f[1] # r \/ in_room(eff.rm, f[2])}
    /\ UNCHANGED <<user_room_map, clients, nreq, reclaimed>>

RoomJoinRoom(r) ==
    /\ RoomReady(r, "JoinRoom")
    /\ LET m == Head(mailbox[r])
       IN  RoomStep(r, RoomActor_join_room(rooms[r], m.password, m.password_is_hash,
                                           m.user_id))

RoomLeaveRoom(r) ==
    /\ RoomReady(r, "LeaveRoom")
    /\ RoomStep(r, RoomActor_leave_room(rooms[r], Head(mailbox[r]).user_id))

RoomVote(r) ==
    /\ RoomReady(r, "Vote")
    /\ RoomStep(r, vote(rooms[r], Head(mailbox[r]).user_id, Head(mailbox[r]).size))

RoomNewVote(r) ==
    /\ RoomReady(r, "NewVote")
    /\ RoomStep(r, new_vote(rooms[r], Head(mailbox[r]).user_id))

RoomUserUpdated(r) ==
    /\ RoomReady(r, "UserUpdated")
    /\ RoomStep(r, RoomActor_user_updated(rooms[r], Head(mailbox[r]).user_id))

RoomRandomize(r) ==
    /\ RoomReady(r, "Randomize")
    /\ \E users \in Orders(DOMAIN rooms[r].active_user_map),
          user_index \in random_indices(rooms[r]) :
          RoomStep(r, randomize(rooms[r], users, user_index))

RoomChangeScale(r) ==
    /\ RoomReady(r, "ChangeScale")
    /\ RoomStep(r, change_scale(rooms[r], Head(mailbox[r]).selected_scale_name))

RoomUpdateActive(r) ==
    /\ RoomReady(r, "UpdateActive")
    /\ RoomStep(r, update_active(rooms[r], Head(mailbox[r]).user_id,
                                  Head(mailbox[r]).active))

(***************************************************************************)
(* RoomManagerActor (room_manager.rs).  A handler works on the record st   *)
(* of the directory's two maps, the messages it forwards to rooms (fwd)    *)
(* and the responses it delivers to clients (out).                         *)
(***************************************************************************)
MaxRoomNameLen == 50

NameChars ==
    {"-", "_",
     "a", "b", "c", "d", "e", "f", "g", "h", "i", "j", "k", "l", "m",
     "n", "o", "p", "q", "r", "s", "t", "u", "v", "w", "x", "y", "z",
     "A", "B", "C", "D", "E", "F", "G", "H", "I", "J", "K", "L", "M",
     "N", "O", "P", "Q", "R", "S", "T", "U", "V", "W", "X", "Y", "Z"}

\* room_name_validator: ^[-_a-zA-Z]{1,50}$
room_name_validator(room_name) ==
    /\ Len(room_name) >= 1
    /\ Len(room_name) <= MaxRoomNameLen
    /\ \A i \in 1..Len(room_name) : room_name[i] \in NameChars

Forward(st, room_name, msg) ==
    [st EXCEPT !.fwd = Append(@, [room |-> room_name, msg |-> msg])]

RoomManagerActor_leave_room(st, user_id, room_name) ==
    LET st1 == [st EXCEPT !.user_room_map = MapRemove(@, user_id)]
    IN  IF room_name \in DOMAIN st1.rooms
        THEN Forward(st1, room_name, MsgLeaveRoom(user_id, room_name))
        ELSE st1

RoomManagerActor_user_left(st, user_id) ==
    IF user_id \in DOMAIN st.user_room_map
    THEN RoomManagerActor_leave_room(
             [st EXCEPT !.user_room_map = MapRemove(@, user_id)],
             user_id, st.user_room_map[user_id])
    ELSE st

RoomManagerActor_notify_user(st, user_id, msg) ==
    IF Alive(user_id)
    THEN [st EXCEPT !.out = @ \cup {[to |-> user_id, msg |-> msg]}]
    ELSE RoomManagerActor_user_left(st, user_id)

create_room(st, room_name, password, password_is_hash) ==
    [st EXCEPT !.rooms = MapInsert(@, room_name,
                             RoomActor_new(room_name, password, password_is_hash))]

RoomManagerActor_do_join_room(st, room_name, user_id, msg) ==
    IF user_id \notin DOMAIN st.user_room_map
    THEN [Forward(st, room_name, msg) EXCEPT
             !.user_room_map = MapInsert(@, user_id, room_name)]
    ELSE RoomManagerActor_notify_user(st, user_id,
             [Resp EXCEPT !.type = "CannotJoinMultipleRooms"])

\* join_room without the room_name_validator test.
RoomManagerActor_join_room_unvalidated(st, msg) ==
    LET st1 == IF msg.room_name \notin DOMAIN st.rooms
               THEN create_room(st, msg.room_name, msg.password,
                                msg.password_is_hash)
               ELSE st
    IN  RoomManagerActor_do_join_room(st1, msg.room_name, msg.user_id, msg)

RoomManagerActor_join_room(st, msg) ==
    IF room_name_validator(msg.room_name)
    THEN LET st1 == IF msg.room_name \notin DOMAIN st.rooms
                    THEN create_room(st, msg.room_name, msg.password,
                                     msg.password_is_hash)
                    ELSE st
         IN  RoomManagerActor_do_join_room(st1, msg.room_name, msg.user_id, msg)
    ELSE RoomManagerActor_notify_user(st, msg.user_id,
             [Resp EXCEPT !.type = "InvalidRoomName"])

notify_room(st, room_name, msg) ==
    IF room_name \in DOMAIN st.rooms THEN Forward(st, room_name, msg) ELSE st

RoomManagerActor_user_updated(st, msg) ==
    IF msg.user_id \in DOMAIN st.user_room_map
    THEN notify_room(st, st.user_room_map[msg.user_id], msg)
    ELSE st

forward(st, room_name, msg) ==
    IF room_name \in DOMAIN st.rooms THEN Forward(st, room_name, msg) ELSE st

\* room_closing that leaves the entry in rooms.
room_closing_keeps_room(st, room_name) == st

room_closing(st, room_name) ==
    [st EXCEPT !.rooms = MapRemove(@, room_name)]

\* Handler<RoomMessage> for RoomManagerActor: the match on the message.
RoomManagerActor_handle(st, msg) ==
    CASE msg.type = "JoinRoom" -> RoomManagerActor_join_room(st, msg)
      [] msg.type = "UserUpdated" -> RoomManagerActor_user_updated(st, msg)
      [] msg.type = "LeaveRoom" ->
             RoomManagerActor_leave_room(st, msg.user_id, msg.room_name)
      [] msg.type = "UserLeft" -> RoomManagerActor_user_left(st, msg.user_id)
      [] msg.type = "Vote" -> forward(st, msg.room_name, msg)
      [] msg.type = "NewVote" -> forward(st, msg.room_name, msg)
      [] msg.type = "RoomClosing" -> room_closing(st, msg.room_name)
      [] msg.type = "Randomize" -> forward(st, msg.room_name, msg)
      [] OTHER -> st

\* Addr::do_send: a stopped actor's mailbox is closed and the message is lost.
RECURSIVE do_send(_, _, _)
do_send(mb, halted, fwd) ==
    IF fwd = <<>> THEN mb
    ELSE LET f == Head(fwd)
             mb1 == IF f.room \in DOMAIN mb /\ f.room \notin halted
                    THEN [mb EXCEPT ![f.room] = Append(@, f.msg)]
                    ELSE mb
         IN  do_send(mb1, halted, Tail(fwd))

ManagerReady(types) ==
    /\ manager_mailbox # <<>>
    /\ Head(manager_mailbox).type \in types

ManagerStep ==
    LET st == RoomManagerActor_handle(
                  [rooms |-> rooms, user_room_map |-> user_room_map,
                   fwd |-> <<>>, out |-> {}],
                  Head(manager_mailbox))
    IN  /\ rooms' = st.rooms
        /\ user_room_map' = st.user_room_map
        /\ manager_mailbox' = Tail(manager_mailbox)
        /\ stopped' = stopped \cap DOMAIN st.rooms
        /\ mailbox' = do_send([r \in DOMAIN st.rooms |->
                                  IF r \in DOMAIN mailbox THEN mailbox[r] ELSE <<>>],
                              stopped,
                              [i \in DOMAIN st.fwd |->
                                  [st.fwd[i] EXCEPT
                                      !.msg.from = Head(manager_mailbox).from]])
        /\ sent' = st.out
        /\ bcast' = {}
        /\ cleared' = {}
        /\ handled' = {}
        /\ cast' = {c \in cast : c[1] \in DOMAIN st.rooms}
        /\ renewed' = renewed \cap DOMAIN st.rooms
        /\ revealed' = revealed \cap DOMAIN st.rooms
        /\ failed' = {f \in failed : f[1] \in DOMAIN st.rooms}
        /\ reclaimed' = reclaimed \cup
               {<<r, rooms[r].hashed_password>> : r \in DOMAIN rooms \ DOMAIN st.rooms}
        /\ UNCHANGED <<clients, nreq>>

ManagerJoinRoom == ManagerReady({"JoinRoom"}) /\ ManagerStep
ManagerUserUpdated == ManagerReady({"UserUpdated"}) /\ ManagerStep
ManagerLeaveRoom == ManagerReady({"LeaveRoom"}) /\ ManagerStep
ManagerUserLeft == ManagerReady({"UserLeft"}) /\ ManagerStep
ManagerForward == ManagerReady({"Vote", "NewVote", "Randomize"}) /\ ManagerStep
ManagerRoomClosing == ManagerReady({"RoomClosing"}) /\ ManagerStep
\* The match's last arm, "_ => {}": ChangeScale and UpdateActive end here.
ManagerIgnore == ManagerReady({"ChangeScale", "UpdateActive"}) /\ ManagerStep

(***************************************************************************)
(* ClientActor (client.rs): a request becomes a RoomMessage in the         *)
(* directory's mailbox.  The last parameters of an action are the sets its *)
(* inputs are drawn from.                                                  *)
(***************************************************************************)
CanSend(u) ==
    /\ Alive(u)
    /\ nreq < MaxRequests
    /\ Len(manager_mailbox) <= MaxPending

ClientSend(msg) ==
    /\ manager_mailbox' = Append(manager_mailbox, msg)
    /\ nreq' = nreq + 1
    /\ sent' = {}
    /\ bcast' = {}
    /\ cleared' = {}
    /\ handled' = {}
    /\ UNCHANGED <<rooms, user_room_map, mailbox, stopped, reclaimed, cast,
                   renewed, revealed, failed>>

ClientJoinRoom(u, inputs) ==
    /\ CanSend(u)
    /\ \E i \in inputs : ClientSend(MsgJoinRoom(i[1], i[2], i[3], u))
    /\ UNCHANGED clients

ClientLeaveRoom(u, names) ==
    /\ CanSend(u)
    /\ \E r \in names : ClientSend(MsgLeaveRoom(u, r))
    /\ UNCHANGED clients

ClientVote(u, names, sizes) ==
    /\ CanSend(u)
    /\ \E r \in names, v \in sizes : ClientSend(MsgVote(r, u, v))
    /\ UNCHANGED clients

ClientNewVote(u, names) ==
    /\ CanSend(u)
    /\ \E r \in names : ClientSend(MsgNewVote(r, u))
    /\ UNCHANGED clients

ClientRandomize(u, names) ==
    /\ CanSend(u)
    /\ \E r \in names : ClientSend(MsgRandomize(r))
    /\ UNCHANGED clients

ClientChangeScale(u, names, scales) ==
    /\ CanSend(u)
    /\ \E r \in names, s \in scales : ClientSend(MsgChangeScale(r, s))
    /\ UNCHANGED clients

ClientUpdateActive(u, names, flags) ==
    /\ CanSend(u)
    /\ \E r \in names, w \in Users, a \in flags :
          ClientSend(MsgUpdateActive(r, w, a))
    /\ UNCHANGED clients

\* register, set_name, set_avatar: notify_data_updated.
ClientSetProfile(u) ==
    /\ CanSend(u)
    /\ ClientSend(MsgUserUpdated(u))
    /\ UNCHANGED clients

\* A Close frame or a heartbeat timeout: user_left, then ctx.stop().
ClientClose(u) ==
    /\ CanSend(u)
    /\ clients' = [clients EXCEPT ![u].alive = FALSE]
    /\ ClientSend(MsgUserLeft(u))

\* Any other end of the stream: ctx.stop() with no notification.
ClientStop(u) ==
    /\ Alive(u)
    /\ nreq < MaxRequests
    /\ clients' = [clients EXCEPT ![u].alive = FALSE]
    /\ nreq' = nreq + 1
    /\ sent' = {}
    /\ bcast' = {}
    /\ cleared' = {}
    /\ handled' = {}
    /\ UNCHANGED <<rooms, user_room_map, manager_mailbox, mailbox, stopped, reclaimed,
                   cast, renewed, revealed, failed>>

(***************************************************************************)
(* The program: RoomManagerActor::new(), no room, every client running.    *)
(***************************************************************************)
Init ==
    /\ rooms = [r \in {} |-> RoomActor_new(r, "", FALSE)]
    /\ user_room_map = [u \in {} |-> <<>>]
    /\ manager_mailbox = <<>>
    /\ mailbox = [r \in {} |-> <<>>]
    /\ stopped = {}
    /\ clients = [u \in Users |-> [alive |-> TRUE]]
    /\ sent = {}
    /\ bcast = {}
    /\ cleared = {}
    /\ handled = {}
    /\ nreq = 0
    /\ reclaimed = {}
    /\ cast = {}
    /\ renewed = {}
    /\ revealed = {}
    /\ failed = {}

ManagerNext ==
    \/ ManagerJoinRoom
    \/ ManagerUserUpdated
    \/ ManagerLeaveRoom
    \/ ManagerUserLeft
    \/ ManagerForward
    \/ ManagerRoomClosing
    \/ ManagerIgnore

RoomNext ==
    \E r \in RoomNames :
        \/ RoomJoinRoom(r)
        \/ RoomLeaveRoom(r)
        \/ RoomVote(r)
        \/ RoomNewVote(r)
        \/ RoomUserUpdated(r)
        \/ RoomRandomize(r)

(***************************************************************************)
(* Spec: the whole program, two room names and an invalid one.  The        *)
(* directory's match has no arm for ChangeScale and UpdateActive, so no    *)
(* room ever receives them here.                                           *)
(***************************************************************************)
ClientNext ==
    \E u \in Users :
        \/ ClientJoinRoom(u, JoinInputs)
        \/ ClientLeaveRoom(u, RoomNames)
        \/ ClientVote(u, {TheRoom}, {"3"})
        \/ ClientNewVote(u, {TheRoom})
        \/ ClientRandomize(u, {TheRoom})
        \/ ClientChangeScale(u, {TheRoom}, {"fistOfFive"})
        \/ ClientUpdateActive(u, {TheRoom}, {FALSE})
        \/ ClientSetProfile(u)
        \/ ClientClose(u)
        \/ ClientStop(u)

Next == ClientNext \/ ManagerNext \/ RoomNext

Spec == Init /\ [][Next]_vars

(***************************************************************************)
(* RoomSpec: one room, driven with every RoomMessage variant its handler   *)
(* matches.  ChangeScale and UpdateActive are put into the room's mailbox  *)
(* as the directory's forward would put them.                              *)
(***************************************************************************)
Routed(msg) ==
    /\ nreq < MaxRequests
    /\ msg.room_name \in DOMAIN rooms
    /\ mailbox' = do_send(mailbox, stopped, <<[room |-> msg.room_name, msg |-> msg]>>)
    /\ nreq' = nreq + 1
    /\ sent' = {}
    /\ bcast' = {}
    /\ cleared' = {}
    /\ handled' = {}
    /\ UNCHANGED <<rooms, user_room_map, manager_mailbox, stopped, clients, reclaimed,
                   cast, renewed, revealed, failed>>

RoutedChangeScale == \E s \in ScaleInputs : Routed(MsgChangeScale(TheRoom, s))

RoutedUpdateActive ==
    \E w \in Users, a \in BOOLEAN : Routed(MsgUpdateActive(TheRoom, w, a))

RoomClientNext ==
    \E u \in Users :
        \/ ClientJoinRoom(u, RoomJoinInputs)
        \/ ClientLeaveRoom(u, {TheRoom})
        \/ ClientVote(u, {TheRoom}, Sizes)
        \/ ClientNewVote(u, {TheRoom})
        \/ ClientRandomize(u, {TheRoom})
        \/ ClientSetProfile(u)
        \/ ClientClose(u)
        \/ ClientStop(u)

RoomSpecNext ==
    \/ RoomClientNext
    \/ RoutedChangeScale
    \/ RoutedUpdateActive
    \/ ManagerJoinRoom
    \/ ManagerUserUpdated
    \/ ManagerLeaveRoom
    \/ ManagerUserLeft
    \/ ManagerForward
    \/ ManagerRoomClosing
    \/ RoomNext
    \/ RoomChangeScale(TheRoom)
    \/ RoomUpdateActive(TheRoom)

RoomSpec == Init /\ [][RoomSpecNext]_vars

(***************************************************************************)
(* Properties.                                                             *)
(***************************************************************************)
Active(r) == DOMAIN rooms[r].active_user_map
Passive(r) == DOMAIN rooms[r].passive_user_map
Votes(r) == DOMAIN rooms[r].vote_map
Members(r) == Active(r) \cup Passive(r)

\* No message is in flight: every mailbox is empty.
Quiescent ==
    /\ manager_mailbox = <<>>
    /\ \A r \in DOMAIN mailbox : mailbox[r] = <<>>

RoundStatus == {"VoteResults", "VoteStatus"}

\* C1: in every room the keys of the vote map are active members: no passive
\* member, departed member or non-member holds a vote entry.
C1_VotesOfActiveOnly ==
    \A r \in DOMAIN rooms : Votes(r) \subseteq Active(r)

\* C1 witness: a member was just moved to passive (the round status was sent
\* again) in a room where another member's vote stands.
C1_Witness ==
    \E r \in DOMAIN rooms, m \in bcast :
        /\ m.type = "ActiveUpdated" /\ ~m.active /\ m.room_name = r
        /\ m.user_id \in Passive(r)
        /\ Votes(r) # {}
        /\ \E n \in bcast : n.type \in RoundStatus

\* C2: in every room the active and the passive member sets are disjoint.
C2_ActivePassiveDisjoint ==
    \A r \in DOMAIN rooms : Active(r) \cap Passive(r) = {}

\* C2 witness: a SetActive(true) was just handled for a member who is active
\* after it while another member is passive.
C2_Witness ==
    \E r \in DOMAIN rooms, m \in bcast :
        /\ m.type = "ActiveUpdated" /\ m.active /\ m.room_name = r
        /\ m.user_id \in Active(r)
        /\ Passive(r) # {}

\* C3: a message that carries the vote value of a participant other than its
\* recipient is delivered only when every active member of the room has an
\* entry in the vote map; the only messages that carry vote values are
\* VoteResults and OwnVote, and OwnVote carries the recipient's own vote.
C3_NoValueBeforeCompletion ==
    \A d \in sent :
        /\ d.msg.type \notin {"VoteResults", "OwnVote"} =>
               d.msg.votes = EmptyMap /\ d.msg.size = ""
        /\ d.msg.type = "OwnVote" =>
               /\ d.msg.votes = EmptyMap
               /\ d.to \in Votes(d.msg.room_name)
               /\ rooms[d.msg.room_name].vote_map[d.to] = d.msg.size
        /\ d.msg.type = "VoteResults" =>
               /\ Active(d.msg.room_name) \subseteq Votes(d.msg.room_name)
               /\ d.msg.votes = rooms[d.msg.room_name].vote_map

\* C3 witness: VoteResults with another participant's value was delivered.
C3_Witness ==
    \E d \in sent :
        d.msg.type = "VoteResults" /\ DOMAIN d.msg.votes \ {d.to} # {}

\* C4 (as claimed): a round status message a room delivers is VoteResults if
\* and only if the vote map is as large as the active member set and the
\* active member set is not empty; otherwise it is VoteStatus.
C4_ResultsIffCompleteAndNonEmpty ==
    \A d \in sent :
        d.msg.type \in RoundStatus =>
            (d.msg.type = "VoteResults" <=>
                /\ Cardinality(Votes(d.msg.room_name)) =
                       Cardinality(Active(d.msg.room_name))
                /\ Active(d.msg.room_name) # {})

\* C5 (as claimed, for the states with no message in flight): no participant
\* is a member of two distinct rooms.
C5_OneRoomPerParticipant ==
    Quiescent =>
        \A u \in Users :
            Cardinality({r \in DOMAIN rooms : u \in Members(r)}) <= 1

\* C6: a room whose only member leaves stops and tells the directory, which
\* removes it, so that with no message in flight no stopped room is held; a
\* JoinRoom for a name the directory does not hold creates a room with the
\* commitment of that join's password, and the join, the first message of
\* the new room, is answered with RoomJoined and not with WrongPassword.
C6_FreshRoomAfterLastLeave ==
    /\ [](Quiescent => stopped = {})
    /\ [][\A r \in RoomNames :
             (RoomLeaveRoom(r) /\ Members(r) = {Head(mailbox[r]).user_id}) =>
                 /\ r \in stopped'
                 /\ manager_mailbox' # <<>>
                 /\ manager_mailbox'[Len(manager_mailbox')] = MsgRoomClosing(r)]_vars
    /\ [][ManagerRoomClosing =>
             Head(manager_mailbox).room_name \notin DOMAIN rooms']_vars
    /\ [][(/\ ManagerJoinRoom
            /\ room_name_validator(Head(manager_mailbox).room_name)
            /\ Head(manager_mailbox).room_name \notin DOMAIN rooms
            /\ Head(manager_mailbox).user_id \notin DOMAIN user_room_map) =>
             LET m == Head(manager_mailbox)
             IN  /\ m.room_name \in DOMAIN rooms'
                 /\ rooms'[m.room_name].hashed_password =
                        compute_password(m.password, m.password_is_hash)
                 /\ DOMAIN rooms'[m.room_name].active_user_map = {}
                 /\ DOMAIN rooms'[m.room_name].passive_user_map = {}
                 /\ mailbox'[m.room_name] = <<m>>]_vars
    /\ [][\A r \in RoomNames :
             (/\ RoomJoinRoom(r)
              /\ Members(r) = {}
              /\ rooms[r].hashed_password =
                     compute_password(Head(mailbox[r]).password,
                                      Head(mailbox[r]).password_is_hash)
              /\ Alive(Head(mailbox[r]).user_id)) =>
                 /\ \E d \in sent' :
                        /\ d.to = Head(mailbox[r]).user_id
                        /\ d.msg.type = "RoomJoined"
                        /\ d.msg.hashed_password = rooms[r].hashed_password
                 /\ \A d \in sent' : d.msg.type # "WrongPassword"]_vars

\* C6 witness: RoomJoined was delivered for a room name under which the
\* directory earlier removed a room with another password commitment.
C6_Witness ==
    \E d \in sent, e \in reclaimed :
        /\ d.msg.type = "RoomJoined"
        /\ e[1] = d.msg.room_name
        /\ e[2] # d.msg.hashed_password

\* C7 (as claimed): a JoinRoom for R from a member of R is handed to R, which
\* answers AlreadyInRoom, changes nothing and broadcasts nothing.
C7_RejoinAnsweredAlreadyInRoom ==
    /\ [][(/\ ManagerJoinRoom
            /\ Head(manager_mailbox).room_name \in DOMAIN rooms \ stopped
            /\ Head(manager_mailbox).user_id
                   \in Members(Head(manager_mailbox).room_name)) =>
             LET m == Head(manager_mailbox)
             IN  /\ mailbox'[m.room_name] = Append(mailbox[m.room_name], m)
                 /\ sent' = {}]_vars
    /\ [][\A r \in RoomNames :
             (RoomJoinRoom(r) /\ Head(mailbox[r]).user_id \in Members(r)) =>
                 /\ rooms' = rooms
                 /\ bcast' = {}
                 /\ sent' \subseteq {[to |-> Head(mailbox[r]).user_id,
                                      msg |-> [Resp EXCEPT !.type = "AlreadyInRoom",
                                                           !.room_name = r]]}
                 /\ Alive(Head(mailbox[r]).user_id) => sent' # {}]_vars

\* C8 (as claimed): a Join whose password commitment differs from the room's
\* is answered with WrongPassword to the requester only; the requester is in
\* neither member set, the vote map is unchanged and nothing is broadcast.
C8_WrongPasswordRejected ==
    [][\A r \in RoomNames :
         (/\ RoomJoinRoom(r)
          /\ rooms[r].hashed_password #
                 compute_password(Head(mailbox[r]).password,
                                  Head(mailbox[r]).password_is_hash)) =>
             /\ sent' \subseteq {[to |-> Head(mailbox[r]).user_id,
                                  msg |-> [Resp EXCEPT !.type = "WrongPassword",
                                                       !.room_name = r]]}
             /\ Alive(Head(mailbox[r]).user_id) => sent' # {}
             /\ Head(mailbox[r]).user_id \notin DOMAIN rooms'[r].active_user_map
             /\ Head(mailbox[r]).user_id \notin DOMAIN rooms'[r].passive_user_map
             /\ rooms'[r].vote_map = rooms[r].vote_map
             /\ bcast' = {}]_vars

\* C9 (as claimed): a JoinRoom the directory rejects with
\* CannotJoinMultipleRooms leaves the set of rooms and the participant-to-room
\* mapping as they were.
C9_RejectedJoinChangesNothing ==
    [][(/\ ManagerJoinRoom
        /\ \E d \in sent' : d.msg.type = "CannotJoinMultipleRooms") =>
           /\ DOMAIN rooms' = DOMAIN rooms
           /\ user_room_map' = user_room_map]_vars

\* C10 (as claimed): a Vote, NewRound, Randomize, ChangeScale or SetActive the
\* directory handles for a room it holds is put into that room's mailbox.
C10_RoutedOperationsForwarded ==
    [][(/\ ManagerForward \/ ManagerIgnore
        /\ Head(manager_mailbox).room_name \in DOMAIN rooms \ stopped) =>
           LET m == Head(manager_mailbox)
           IN  mailbox'[m.room_name] = Append(mailbox[m.room_name], m)]_vars

\* C11 (as claimed): every participant-to-room entry of the directory names a
\* room the directory holds, and when the directory has handled RoomClosing
\* for a room no entry names that room.
C11_NoDanglingRoomEntry ==
    /\ [](\A u \in DOMAIN user_room_map : user_room_map[u] \in DOMAIN rooms)
    /\ [][ManagerRoomClosing =>
             /\ Head(manager_mailbox).room_name \notin DOMAIN rooms'
             /\ \A u \in DOMAIN user_room_map' :
                    user_room_map'[u] # Head(manager_mailbox).room_name]_vars

\* C12: when a room handles the Vote of an active member who has no entry in
\* the vote map, the vote is recorded, the handler emits OwnVote with the cast
\* value to the voter and then one round status addressed to every member,
\* active and passive: VoteResults with the vote map if every active member
\* has now voted, otherwise VoteStatus mapping each active member to whether
\* they have voted; each running member's client gets exactly that.
C12_FirstVoteBroadcastsStatus ==
    [][\A r \in RoomNames :
         (/\ RoomVote(r)
          /\ Head(mailbox[r]).user_id \in Active(r) \ Votes(r)) =>
             LET m == Head(mailbox[r])
                 eff == vote(rooms[r], m.user_id, m.size)
                 own == [Resp EXCEPT !.type = "OwnVote", !.room_name = r,
                                     !.size = m.size]
                 recorded == MapInsert(rooms[r].vote_map, m.user_id, m.size)
                 status ==
                     IF Active(r) \subseteq DOMAIN recorded
                     THEN [Resp EXCEPT !.type = "VoteResults", !.room_name = r,
                                       !.votes = recorded]
                     ELSE [Resp EXCEPT !.type = "VoteStatus", !.room_name = r,
                              !.status = [a \in Active(r) |-> a \in DOMAIN recorded]]
             IN  /\ rooms'[r] = [rooms[r] EXCEPT !.vote_map = recorded]
                 /\ Len(eff.em) = 2
                 /\ eff.em[1].to \cup eff.em[1].to2 = {m.user_id}
                 /\ eff.em[1].msg = own
                 /\ eff.em[2].to \cup eff.em[2].to2 = Members(r)
                 /\ eff.em[2].msg = status
                 /\ bcast' = {status}
                 /\ sent' = {[to |-> u, msg |-> own] :
                                u \in {x \in {m.user_id} : Alive(x)}}
                            \cup {[to |-> u, msg |-> status] :
                                     u \in {x \in Members(r) : Alive(x)}}]_vars

\* C12 witness: a first vote was just handled: OwnVote went to the voter and
\* the round status went to a passive member too.
C12_Witness ==
    \E d \in sent, e \in sent :
        /\ d.msg.type = "OwnVote"
        /\ d.to \in Votes(d.msg.room_name)
        /\ e.msg.type \in RoundStatus
        /\ e.to \in Passive(d.msg.room_name)

\* C13 (as claimed): when every active member of a room has voted and the
\* set of active members is not empty, the room answers a Vote from any
\* participant with VotingOver to that participant only; the room is unchanged
\* and nothing is broadcast.
C13_VoteAfterCompletionAnswered ==
    [][\A r \in RoomNames :
         (/\ RoomVote(r)
          /\ Active(r) # {}
          /\ Active(r) \subseteq Votes(r)) =>
             LET m == Head(mailbox[r])
             IN  /\ rooms'[r] = rooms[r]
                 /\ bcast' = {}
                 /\ sent' = {[to |-> u, msg |-> [Resp EXCEPT !.type = "VotingOver"]] :
                                u \in {x \in {m.user_id} : Alive(x)}}]_vars

\* C13 (amended): in that situation the room answers a Vote from an active
\* member with VotingOver to that member only and does not answer a Vote
\* from anyone else; the room is unchanged and nothing is broadcast.
C13_VoteAfterCompletionRejected ==
    [][\A r \in RoomNames :
         (/\ RoomVote(r)
          /\ Active(r) # {}
          /\ Active(r) \subseteq Votes(r)) =>
             LET m == Head(mailbox[r])
             IN  /\ rooms'[r] = rooms[r]
                 /\ bcast' = {}
                 /\ sent' = {[to |-> u, msg |-> [Resp EXCEPT !.type = "VotingOver"]] :
                                u \in {x \in {m.user_id} \cap Active(r) : Alive(x)}}]_vars

\* C13 witness: VotingOver was delivered to an active member of a room whose
\* vote map holds the votes of all its active members.
C13_Witness ==
    \E d \in sent, r \in DOMAIN rooms :
        /\ d.msg.type = "VotingOver"
        /\ d.to \in Active(r)
        /\ Active(r) \subseteq Votes(r)

\* C14: when a room handles UpdateActive(A, false) for an active member A
\* with an entry in the vote map, A is moved to the passive set, A's entry is
\* taken out of the vote map, and the round status broadcast (with the
\* ActiveUpdated notice) to every member is computed from the remaining
\* active members and their votes: neither A's id nor A's value is in it.
C14_PassiveMemberVoteDropped ==
    [][\A r \in RoomNames :
         (/\ RoomUpdateActive(r)
          /\ ~Head(mailbox[r]).active
          /\ Head(mailbox[r]).user_id \in Active(r) \cap Votes(r)) =>
             LET a == Head(mailbox[r]).user_id
                 remaining == Active(r) \ {a}
                 votes == [u \in Votes(r) \ {a} |-> rooms[r].vote_map[u]]
                 results == [Resp EXCEPT !.type = "VoteResults", !.room_name = r,
                                         !.votes = votes]
                 status == [Resp EXCEPT !.type = "VoteStatus", !.room_name = r,
                               !.status = [u \in remaining |-> u \in DOMAIN votes]]
                 changed == [Resp EXCEPT !.type = "ActiveUpdated", !.room_name = r,
                                         !.user_id = a, !.active = FALSE]
             IN  /\ DOMAIN rooms'[r].active_user_map = remaining
                 /\ DOMAIN rooms'[r].passive_user_map = Passive(r) \cup {a}
                 /\ rooms'[r].vote_map = votes
                 /\ cleared' = {<<a, rooms[r].vote_map[a]>>}
                 /\ remaining # {} =>
                        bcast' = {IF remaining \subseteq DOMAIN votes
                                  THEN results ELSE status, changed}
                 /\ remaining = {} =>
                        bcast' \in {{results, changed}, {status, changed}}
                 /\ sent' = {[to |-> u, msg |-> x] :
                                u \in {y \in Members(r) : Alive(y)}, x \in bcast'}
                 /\ \A x \in bcast' :
                        /\ a \notin DOMAIN x.votes
                        /\ a \notin DOMAIN x.status
                        /\ \A u \in DOMAIN x.votes : x.votes[u] = rooms[r].vote_map[u]]_vars

\* C14 witness: a member whose vote stood was just moved to passive: the vote
\* is gone and the round status of the remaining active members was delivered.
C14_Witness ==
    \E r \in DOMAIN rooms, m \in bcast, d \in sent, c \in cleared :
        /\ m.type = "ActiveUpdated" /\ ~m.active /\ m.room_name = r
        /\ m.user_id \in Passive(r) \ Votes(r)
        /\ c[1] = m.user_id
        /\ Active(r) # {}
        /\ d.msg.type \in RoundStatus

\* C15: a room that handles the NewVote of a member, active or passive,
\* empties its vote map and broadcasts NewVote to every member; handling the
\* NewVote of a participant who is not a member changes nothing and sends
\* nothing; and every VoteResults a room delivers holds only votes the room
\* took after the last NewVote it handled for a member.
C15_NewRoundClearsVotes ==
    /\ [][\A r \in RoomNames :
             RoomNewVote(r) =>
                 LET m == Head(mailbox[r])
                     note == [Resp EXCEPT !.type = "NewVote", !.room_name = r]
                 IN  IF m.user_id \in Members(r)
                     THEN /\ rooms'[r].vote_map = EmptyMap
                          /\ DOMAIN rooms'[r].active_user_map = Active(r)
                          /\ DOMAIN rooms'[r].passive_user_map = Passive(r)
                          /\ bcast' = {note}
                          /\ sent' = {[to |-> u, msg |-> note] :
                                         u \in {x \in Members(r) : Alive(x)}}
                     ELSE /\ rooms'[r] = rooms[r]
                          /\ bcast' = {}
                          /\ sent' = {}]_vars
    /\ [](\A d \in sent :
             d.msg.type = "VoteResults" =>
                 \A u \in DOMAIN d.msg.votes :
                     <<d.msg.room_name, u, d.msg.votes[u]>> \in cast)

\* C15 witness: VoteResults was delivered in a round that a member's NewVote
\* opened: the room took a vote, cleared it on NewVote and took another.
C15_Witness ==
    \E d \in sent :
        /\ d.msg.type = "VoteResults"
        /\ d.msg.votes # EmptyMap
        /\ d.msg.room_name \in renewed

\* C16: a room that handles ChangeScale with a name that is not a key of the
\* scale catalog is unchanged and sends nothing; with a key of the catalog it
\* sets the selected scale name to it, changes nothing else and broadcasts
\* ScaleChanged with that scale's definition to every member; the selected
\* scale name of every room is a key of the catalog.
C16_ChangeScaleOnlyToKnownScale ==
    /\ [][\A r \in RoomNames :
             RoomChangeScale(r) =>
                 LET n == Head(mailbox[r]).selected_scale_name
                     note == [Resp EXCEPT !.type = "ScaleChanged", !.room_name = r,
                                          !.selected_scale = scale_values[n]]
                 IN  IF n \in {"fibonacci", "fistOfFive"}
                     THEN /\ rooms'[r] = [rooms[r] EXCEPT !.selected_scale_name = n]
                          /\ note.selected_scale.name = n
                          /\ bcast' = {note}
                          /\ sent' = {[to |-> u, msg |-> note] :
                                         u \in {x \in Members(r) : Alive(x)}}
                     ELSE /\ rooms'[r] = rooms[r]
                          /\ bcast' = {}
                          /\ sent' = {}]_vars
    /\ [](\A r \in DOMAIN rooms :
             rooms[r].selected_scale_name \in {"fibonacci", "fistOfFive"})

\* C16 witness: ScaleChanged for a scale other than the initial one was
\* delivered and is the room's selected scale.
C16_Witness ==
    \E d \in sent :
        /\ d.msg.type = "ScaleChanged"
        /\ d.msg.selected_scale.name = "fistOfFive"
        /\ rooms[d.msg.room_name].selected_scale_name = "fistOfFive"

\* C17: a room that handles Randomize is unchanged; with no active member it
\* sends nothing; otherwise it broadcasts to every member one Randomized
\* notice whose selected participant is an active member of the room at that
\* moment (the only one, when there is exactly one).
C17_SpotlightOnActiveMember ==
    [][\A r \in RoomNames :
         RoomRandomize(r) =>
             /\ rooms'[r] = rooms[r]
             /\ IF Active(r) = {}
                THEN bcast' = {} /\ sent' = {}
                ELSE \E p \in Active(r) :
                        LET note == [Resp EXCEPT !.type = "Randomized",
                                         !.room_name = r, !.user_id = p]
                        IN  /\ bcast' = {note}
                            /\ sent' = {[to |-> u, msg |-> note] :
                                           u \in {x \in Members(r) : Alive(x)}}]_vars

\* C17 witness: a Randomized notice naming an active member was delivered in
\* a room that has a passive member too.
C17_Witness ==
    \E d \in sent :
        /\ d.msg.type = "Randomized"
        /\ d.msg.user_id \in Active(d.msg.room_name)
        /\ Passive(d.msg.room_name) # {}

\* C18 (as claimed): a member of a room to whom a delivery by that room has
\* failed is removed from the room: once no message is in flight, no held
\* room has a member to whom one of its deliveries has failed.
C18_FailedMemberRemoved ==
    Quiescent => failed = {}

\* C19 (as claimed): a delivery failure detected by one room does not change
\* another room: the LeaveRoom a room handles because of a failure that a
\* different room detected leaves its member sets and its vote map as they
\* were.
C19_FailureStaysInItsRoom ==
    [][\A r \in RoomNames :
         (/\ RoomLeaveRoom(r)
          /\ Head(mailbox[r]).from \notin {<<>>, r}) =>
             /\ rooms'[r].active_user_map = rooms[r].active_user_map
             /\ rooms'[r].passive_user_map = rooms[r].passive_user_map
             /\ rooms'[r].vote_map = rooms[r].vote_map]_vars

\* C20 (as claimed): when the directory handles a JoinRoom whose room name
\* does not match the pattern, InvalidRoomName goes to the requester only, no
\* room is created, no participant-to-room entry is recorded and nothing is
\* forwarded to any room.
C20_InvalidRoomNameRejected ==
    [][(/\ ManagerJoinRoom
        /\ Head(manager_mailbox).room_name \in BadRoomNames) =>
           LET m == Head(manager_mailbox)
           IN  /\ sent' = {[to |-> u, msg |-> [Resp EXCEPT !.type = "InvalidRoomName"]] :
                              u \in {x \in {m.user_id} : Alive(x)}}
               /\ rooms' = rooms
               /\ \A u \in DOMAIN user_room_map' :
                      u \in DOMAIN user_room_map /\ user_room_map'[u] = user_room_map[u]
               /\ mailbox' = mailbox]_vars

\* C20 (amended): the same while the requester's client is running; when it
\* has stopped, nothing is delivered, no room is created, and the directory
\* handles the requester as disconnected: its entry is removed and a
\* LeaveRoom for it is forwarded to the room the entry named.
C20_InvalidRoomNameRejectedOrLeft ==
    [][(/\ ManagerJoinRoom
        /\ Head(manager_mailbox).room_name \in BadRoomNames) =>
           LET m == Head(manager_mailbox)
               u == m.user_id
           IN  /\ rooms' = rooms
               /\ IF Alive(u)
                  THEN /\ sent' = {[to |-> u,
                                    msg |-> [Resp EXCEPT !.type = "InvalidRoomName"]]}
                       /\ user_room_map' = user_room_map
                       /\ mailbox' = mailbox
                  ELSE /\ sent' = {}
                       /\ user_room_map' = MapRemove(user_room_map, u)
                       /\ mailbox' =
                              IF u \in DOMAIN user_room_map
                                 /\ user_room_map[u] \in DOMAIN rooms \ stopped
                              THEN [mailbox EXCEPT ![user_room_map[u]] =
                                       Append(@, MsgLeaveRoom(u, user_room_map[u]))]
                              ELSE mailbox]_vars

\* C20 witness: InvalidRoomName was delivered to a participant who is in a
\* room, and the directory holds no room of a name outside the pattern.
C20_Witness ==
    \E d \in sent :
        /\ d.msg.type = "InvalidRoomName"
        /\ d.to \in DOMAIN user_room_map
        /\ \E r \in DOMAIN rooms : d.to \in Members(r)
        /\ DOMAIN rooms \cap BadRoomNames = {}

\* C21 (as claimed): a join rejected with WrongPassword leaves no trace in the
\* directory: when a room has answered WrongPassword to a participant who is
\* not a member and has no other JoinRoom waiting in that room, the directory
\* holds no entry from that participant to that room.
C21_WrongPasswordLeavesNoEntry ==
    [][\A r \in RoomNames :
         (/\ RoomJoinRoom(r)
          /\ Head(mailbox[r]).user_id \notin Members(r)
          /\ rooms[r].hashed_password #
                 compute_password(Head(mailbox[r]).password,
                                  Head(mailbox[r]).password_is_hash)
          /\ \A i \in 2..Len(mailbox[r]) :
                 ~(/\ mailbox[r][i].type = "JoinRoom"
                   /\ mailbox[r][i].user_id = Head(mailbox[r]).user_id)) =>
             LET u == Head(mailbox[r]).user_id
             IN  ~(u \in DOMAIN user_room_map' /\ user_room_map'[u] = r)]_vars

\* C22 (as claimed): a room that handles the LeaveRoom of a participant who
\* is in neither of its member sets drops it: the member sets and the vote
\* map are unchanged, nothing is delivered to any member and the room does
\* not stop.
C22_StaleLeaveDropped ==
    [][\A r \in RoomNames :
         (/\ RoomLeaveRoom(r)
          /\ Head(mailbox[r]).user_id \notin Members(r)) =>
             /\ rooms'[r].active_user_map = rooms[r].active_user_map
             /\ rooms'[r].passive_user_map = rooms[r].passive_user_map
             /\ rooms'[r].vote_map = rooms[r].vote_map
             /\ sent' = {}
             /\ r \notin stopped']_vars

\* The number of RoomClosing messages for room r in a mailbox.
Closings(mb, r) ==
    Cardinality({i \in DOMAIN mb : mb[i] = MsgRoomClosing(r)})

\* C23: when a room has handled a LeaveRoom and its active member set is
\* then empty, it has sent exactly one RoomClosing to the directory (the last
\* thing it sent), has stopped, and what was queued behind the LeaveRoom is
\* discarded; a LeaveRoom after which an active member remains sends no
\* RoomClosing and does not stop the room.  A stopped room handles nothing:
\* while the directory still holds it, its state does not change, its
\* mailbox stays empty and no room response is delivered.
C23_RoomClosesOnceAndHandlesNothingAfter ==
    /\ [][\A r \in RoomNames :
             RoomLeaveRoom(r) =>
                 IF DOMAIN rooms'[r].active_user_map = {}
                 THEN /\ Closings(manager_mailbox', r) =
                             Closings(manager_mailbox, r) + 1
                      /\ manager_mailbox'[Len(manager_mailbox')] = MsgRoomClosing(r)
                      /\ r \in stopped'
                      /\ mailbox'[r] = <<>>
                 ELSE /\ Closings(manager_mailbox', r) = Closings(manager_mailbox, r)
                      /\ r \notin stopped'
                      /\ mailbox'[r] = Tail(mailbox[r])]_vars
    /\ [][\A r \in stopped :
             /\ ~(\/ RoomJoinRoom(r) \/ RoomLeaveRoom(r) \/ RoomVote(r)
                  \/ RoomNewVote(r) \/ RoomUserUpdated(r) \/ RoomRandomize(r)
                  \/ RoomChangeScale(r) \/ RoomUpdateActive(r))
             /\ r \in DOMAIN rooms' =>
                    /\ rooms'[r] = rooms[r]
                    /\ mailbox'[r] = <<>>
                    /\ Closings(manager_mailbox', r) <= Closings(manager_mailbox, r)
             /\ \A d \in sent' : d.msg.room_name # r]_vars
    /\ [](\A r \in stopped : Closings(manager_mailbox, r) = 1)

\* C23 witness: a room has stopped on a LeaveRoom that left it without an
\* active member (a passive member remains); its RoomClosing is the next
\* message the directory handles.
C23_Witness ==
    \E r \in stopped :
        /\ Active(r) = {}
        /\ Passive(r) # {}
        /\ mailbox[r] = <<>>
        /\ manager_mailbox # <<>>
        /\ Head(manager_mailbox) = MsgRoomClosing(r)

\* C24: when a room handles the JoinRoom of a participant who is in neither
\* member set and whose password commitment equals the room's, the joiner
\* is added to the active set and nothing else of the room changes (passive
\* set, vote map, selected scale); UserJoined naming the joiner goes to
\* exactly the members present before the join, and RoomJoined goes to the
\* joiner alone, with the members after the join (active and passive, the
\* joiner among them) and the size of the vote map.
C24_JoinAdmitsAndAnnounces ==
    [][\A r \in RoomNames :
         (/\ RoomJoinRoom(r)
          /\ Head(mailbox[r]).user_id \notin Members(r)
          /\ rooms[r].hashed_password =
                 compute_password(Head(mailbox[r]).password,
                                  Head(mailbox[r]).password_is_hash)) =>
             LET u == Head(mailbox[r]).user_id
                 entered == [Resp EXCEPT !.type = "UserJoined", !.room_name = r,
                                         !.user_id = u]
                 joined == [Resp EXCEPT !.type = "RoomJoined", !.room_name = r,
                               !.hashed_password = rooms[r].hashed_password,
                               !.users = Members(r) \cup {u},
                               !.votes_cast = Cardinality(Votes(r)),
                               !.selected_scale_name = rooms[r].selected_scale_name]
             IN  /\ DOMAIN rooms'[r].active_user_map = Active(r) \cup {u}
                 /\ DOMAIN rooms'[r].passive_user_map = Passive(r)
                 /\ rooms'[r].vote_map = rooms[r].vote_map
                 /\ rooms'[r].selected_scale_name = rooms[r].selected_scale_name
                 /\ joined.users = DOMAIN rooms'[r].active_user_map
                                      \cup DOMAIN rooms'[r].passive_user_map
                 /\ joined.votes_cast = Cardinality(DOMAIN rooms'[r].vote_map)
                 /\ bcast' = {entered}
                 /\ sent' = {[to |-> x, msg |-> entered] :
                                x \in {y \in Members(r) : Alive(y)}}
                            \cup {[to |-> x, msg |-> joined] :
                                     x \in {y \in {u} : Alive(y)}}]_vars

\* C24 witness: a join was just admitted to a room that has a passive member:
\* RoomJoined went to the joiner, now active, with both of them in its member
\* list, and UserJoined went to the passive member.
C24_Witness ==
    \E d \in sent, e \in sent :
        /\ d.msg.type = "RoomJoined"
        /\ d.to \in Active(d.msg.room_name)
        /\ e.msg.type = "UserJoined"
        /\ e.msg.user_id = d.to
        /\ e.to \in Passive(d.msg.room_name)
        /\ {d.to, e.to} \subseteq d.msg.users

\* C25: when a room handles the LeaveRoom of a member, it first broadcasts
\* UserLeft naming the member (to the members of that moment), then takes the
\* member out of the set that holds them and out of the vote map, and then
\* broadcasts the round status of the room as it is after the removal to the
\* remaining members: when an active member remains and every remaining
\* active member has voted, that is VoteResults with exactly the remaining
\* members' votes; when one has not voted, VoteStatus of the remaining active
\* members.
C25_LeaveAnnouncedAndStatusRefreshed ==
    [][\A r \in RoomNames :
         (/\ RoomLeaveRoom(r)
          /\ Head(mailbox[r]).user_id \in Members(r)) =>
             LET u == Head(mailbox[r]).user_id
                 eff == RoomActor_leave_room(rooms[r], u)
                 remaining == Active(r) \ {u}
                 votes == [v \in Votes(r) \ {u} |-> rooms[r].vote_map[v]]
                 left == [Resp EXCEPT !.type = "UserLeft", !.room_name = r,
                                      !.user_id = u]
                 results == [Resp EXCEPT !.type = "VoteResults", !.room_name = r,
                                         !.votes = votes]
                 status == [Resp EXCEPT !.type = "VoteStatus", !.room_name = r,
                               !.status = [a \in remaining |-> a \in DOMAIN votes]]
             IN  /\ DOMAIN rooms'[r].active_user_map = remaining
                 /\ DOMAIN rooms'[r].passive_user_map = Passive(r) \ {u}
                 /\ rooms'[r].vote_map = votes
                 /\ Len(eff.em) = 2
                 /\ eff.em[1].msg = left
                 /\ eff.em[1].to \cup eff.em[1].to2 = Members(r)
                 /\ eff.em[2].to \cup eff.em[2].to2 = Members(r) \ {u}
                 /\ remaining # {} =>
                        eff.em[2].msg = IF remaining \subseteq DOMAIN votes
                                        THEN results ELSE status
                 /\ remaining = {} => eff.em[2].msg \in {results, status}
                 /\ sent' = {[to |-> x, msg |-> left] :
                                x \in {y \in Members(r) : Alive(y)}}
                            \cup {[to |-> x, msg |-> eff.em[2].msg] :
                                     x \in {y \in Members(r) \ {u} : Alive(y)}}]_vars

\* C25 witness: the only active member who had not voted has just left:
\* UserLeft and VoteResults with the remaining member's vote were delivered
\* to the remaining member.
C25_Witness ==
    \E d \in sent, e \in sent :
        /\ d.msg.type = "UserLeft"
        /\ d.msg.user_id \notin Members(d.msg.room_name)
        /\ e.msg.type = "VoteResults"
        /\ e.msg.votes # EmptyMap
        /\ e.to = d.to
        /\ e.to \in Active(d.msg.room_name)
        /\ cleared = {}

\* No JoinRoom or LeaveRoom of participant u waits in the mailbox of a room.
Settled(u) ==
    \A r \in DOMAIN mailbox : \A i \in DOMAIN mailbox[r] :
        ~(/\ mailbox[r][i].type \in {"JoinRoom", "LeaveRoom"}
          /\ mailbox[r][i].user_id = u)

\* C26 (as claimed): when the directory handles the UserLeft a client sent on
\* disconnecting, and no join or leave of that participant is still on its
\* way to a room, the participant has no participant-to-room entry
\* afterwards and every running room the participant is a member of gets the
\* LeaveRoom that a LeaveRoom request for that room would have put there;
\* when the participant is a member of no room, the mapping and the rooms'
\* mailboxes are unchanged.
C26_DisconnectLeavesOccupiedRoom ==
    [][(/\ ManagerUserLeft
        /\ Head(manager_mailbox).from = <<>>
        /\ Settled(Head(manager_mailbox).user_id)) =>
           LET u == Head(manager_mailbox).user_id
               occupied == {r \in DOMAIN rooms \ stopped : u \in Members(r)}
           IN  /\ rooms' = rooms
               /\ sent' = {}
               /\ IF occupied # {}
                  THEN /\ u \notin DOMAIN user_room_map'
                       /\ \A r \in occupied :
                              mailbox'[r] = Append(mailbox[r], MsgLeaveRoom(u, r))
                  ELSE /\ user_room_map' = user_room_map
                       /\ mailbox' = mailbox]_vars

C28_VoteOfNonActiveIgnored ==
    [][\A r \in RoomNames :
         (/\ RoomVote(r)
          /\ Head(mailbox[r]).user_id \notin Active(r)
          /\ ~(Active(r) # {} /\ Active(r) \subseteq Votes(r))) =>
             /\ rooms'[r] = rooms[r]
             /\ sent' = {}
             /\ bcast' = {}
             /\ cast' = cast]_vars

\* C28 witness: the room has just handled the Vote of a passive member while
\* an active member had not voted; nothing was delivered.
C28_Witness ==
    \E h \in handled :
        /\ h[2] = "Vote"
        /\ h[3] \in Passive(h[1])
        /\ Active(h[1]) \ Votes(h[1]) # {}
        /\ sent = {}

\* C29 (as claimed): once a room has delivered VoteResults with a vote in it,
\* it takes no Vote until it handles the NewVote of a member: handling a Vote
\* leaves the vote map as it is, whatever joins, leaves and activity changes
\* the room has handled since the results went out.
C29_NoVoteAfterResults ==
    [][\A r \in revealed :
         RoomVote(r) => rooms'[r].vote_map = rooms[r].vote_map]_vars

JoinAnswers == {"RoomJoined", "AlreadyInRoom", "WrongPassword"}

\* C30 (as claimed): no JoinRoom with a valid room name from a connected
\* requester is lost.  The directory either answers it with
\* CannotJoinMultipleRooms or puts it into the mailbox of the room; the room
\* that handles it delivers exactly one of RoomJoined, AlreadyInRoom and
\* WrongPassword to the requester; and a room that stops has no such
\* JoinRoom waiting in its mailbox.
C30_JoinAlwaysAnswered ==
    /\ [][(/\ ManagerJoinRoom
            /\ room_name_validator(Head(manager_mailbox).room_name)
            /\ Alive(Head(manager_mailbox).user_id)) =>
             LET m == Head(manager_mailbox)
             IN  \/ sent' = {[to |-> m.user_id,
                              msg |-> [Resp EXCEPT !.type = "CannotJoinMultipleRooms"]]}
                 \/ /\ sent' = {}
                    /\ m.room_name \in DOMAIN mailbox'
                    /\ mailbox'[m.room_name] # <<>>
                    /\ mailbox'[m.room_name][Len(mailbox'[m.room_name])] = m]_vars
    /\ [][\A r \in RoomNames :
             (RoomJoinRoom(r) /\ Alive(Head(mailbox[r]).user_id)) =>
                 LET got == {d \in sent' : d.to = Head(mailbox[r]).user_id
                                           /\ d.msg.type \in JoinAnswers}
                 IN  Cardinality(got) = 1]_vars
    /\ [][\A r \in RoomNames :
             (RoomLeaveRoom(r) /\ r \in stopped') =>
                 \A i \in 2..Len(mailbox[r]) :
                     ~(/\ mailbox[r][i].type = "JoinRoom"
                       /\ Alive(mailbox[r][i].user_id))]_vars

C32_MembersHaveTheirEntry ==
    Quiescent =>
        \A r \in DOMAIN rooms : \A u \in Members(r) :
            u \in DOMAIN user_room_map /\ user_room_map[u] = r

(***************************************************************************)
(* CascadeSpec: the directory and the rooms under the scheduling of actix: *)
(* an actor whose mailbox holds a message handles it (the directory, and   *)
(* each room that has not stopped).  Clients join, leave, change their     *)
(* profile and lose their connection, and are under no obligation to send. *)
(***************************************************************************)
CascadeClientNext ==
    \E u \in Users :
        \/ ClientJoinRoom(u, {<<r, "x", FALSE>> : r \in RoomNames})
        \/ ClientLeaveRoom(u, RoomNames)
        \/ ClientSetProfile(u)
        \/ ClientStop(u)

CascadeNext ==
    \/ CascadeClientNext
    \/ ManagerJoinRoom
    \/ ManagerUserUpdated
    \/ ManagerLeaveRoom
    \/ ManagerUserLeft
    \/ ManagerRoomClosing
    \/ \E r \in RoomNames :
          \/ RoomJoinRoom(r)
          \/ RoomLeaveRoom(r)
          \/ RoomUserUpdated(r)

RoomHandles(r) ==
    \/ RoomJoinRoom(r)
    \/ RoomLeaveRoom(r)
    \/ RoomVote(r)
    \/ RoomNewVote(r)
    \/ RoomUserUpdated(r)
    \/ RoomRandomize(r)

CascadeSpec ==
    /\ Init /\ [][CascadeNext]_vars
    /\ WF_vars(ManagerNext)
    /\ \A r \in RoomNames : WF_vars(RoomHandles(r))

\* A failure notification of a room (what remove_user sends after a failed
\* delivery) waits at the directory.
FailureNotified ==
    \E i \in DOMAIN manager_mailbox : manager_mailbox[i].from # <<>>

\* C33: whenever a failure notification of a room waits at the directory,
\* the notifications, the LeaveRoom messages the directory forwards for them
\* and the broadcasts these trigger come to an end: a state with every
\* mailbox empty is reached.
C33_CleanupCascadeTerminates ==
    FailureNotified ~> Quiescent

\* C33 witness: the cascade is under way: a room has just handled the
\* LeaveRoom that the directory forwarded for a failure notification; its
\* UserLeft broadcast failed once more on the leaving member, who is now out
\* of the room and has no entry, and that second notification waits at the
\* directory while another member remains in the room.
C33_Witness ==
    /\ FailureNotified
    /\ \E h \in handled :
          /\ h[2] = "LeaveRoom"
          /\ h[4] # <<>>
          /\ ~Alive(h[3])
          /\ h[1] \in DOMAIN rooms \ stopped
          /\ h[3] \notin Members(h[1])
          /\ h[3] \notin DOMAIN user_room_map
          /\ Members(h[1]) # {}
          /\ \E i \in DOMAIN manager_mailbox :
                 manager_mailbox[i] = [MsgUserLeft(h[3]) EXCEPT !.from = h[1]]

====
